---- MODULE Spec2Model ----
(***************************************************************************)
(* Los Banditos price updater: src/fetch_prices.py (variant "root") and    *)
(* src/scripts/fetch_prices.py (variant "scripts").                        *)
(*                                                                         *)
(* Conventions of the model                                                *)
(*   - a price is an integer number of cents (115.48 is 11548); a close    *)
(*     as the provider sends it is a decimal string, kept as a number of   *)
(*     thousandths (mills) when it parses as a number;                     *)
(*   - a percentage is an integer number of hundredths of a percent;       *)
(*   - a date string "YYYY-MM-DD" is the integer YYYYMMDD: on such strings *)
(*     Python's string order is the integer order;                         *)
(*   - Python's None / dict is the record [ok |-> FALSE/TRUE, ...];        *)
(*   - a text document is a sequence of tokens (see Tok).                  *)
(***************************************************************************)
EXTENDS Integers, Sequences, FiniteSets, TLC

VARIABLES
    variant,     \* which script runs: "root" or "scripts"
    apiKey,      \* AV_API_KEY of the environment
    pc,          \* position of the run
    i,           \* instruments the loop over STOCKS has gone through
    fetched,     \* what fetch_daily returned, call by call
    events,      \* the calls of fetch_daily ("fetch") and time.sleep ("sleep"), in order
    existing,    \* what load_existing() returned
    result,      \* result["stocks"]
    pricesFile,  \* data/prices.json
    jsonWrites,  \* writes of data/prices.json in this run
    html,        \* index.html
    htmlWrites,  \* writes of index.html in this run
    warning      \* the warning update_index_html printed ("" if none)

vars == <<variant, apiKey, pc, i, fetched, events, existing, result, pricesFile,
          jsonWrites, html, htmlWrites, warning>>

-----------------------------------------------------------------------------
(* Configuration *)

STOCKS ==
    << [ticker |-> "HOOD", av_symbol |-> "HOOD", p0 |-> 11548, currency |-> "USD"],
       [ticker |-> "TTD",  av_symbol |-> "TTD",  p0 |-> 3819,  currency |-> "USD"],
       [ticker |-> "GMAB", av_symbol |-> "GMAB", p0 |-> 3118,  currency |-> "USD"],
       [ticker |-> "XXI",  av_symbol |-> "XXI",  p0 |-> 885,   currency |-> "USD"],
       [ticker |-> "FOUR", av_symbol |-> "FOUR", p0 |-> 6331,  currency |-> "USD"],
       [ticker |-> "DFEN", av_symbol |-> "DFEN", p0 |-> 5249,  currency |-> "EUR"] >>

START_DATE == 20260102

Tickers == { STOCKS[k].ticker : k \in 1..Len(STOCKS) }

-----------------------------------------------------------------------------
(* Values *)

None == [ok |-> FALSE, val |-> <<>>]
Some(v) == [ok |-> TRUE, val |-> v]

\* round(x, 2) of a non-negative close given in mills, in cents.  The closes
\* of ProviderResponses have no tie (no mills value ends in 5).
Round2(mills) == (mills + 5) \div 10

\* round((latest_price - p0) / p0 * 100, 2), in hundredths of a percent.
YtdPercent(latest, p0) == (2 * (latest - p0) * 10000 + p0) \div (2 * p0)

Max(S) == CHOOSE m \in S : \A n \in S : n <= m

-----------------------------------------------------------------------------
(* A Python dict: the entries in insertion order, one per key *)

DictKeys(d) == { d[j].key : j \in DOMAIN d }

DictHas(d, k) == k \in DictKeys(d)

DictGet(d, k) == d[CHOOSE j \in DOMAIN d : d[j].key = k].value

\* d[k] = v: the value of an existing key is replaced in place, a new key is
\* appended.
DictSet(d, k, v) ==
    IF DictHas(d, k)
    THEN [j \in DOMAIN d |-> IF d[j].key = k THEN [key |-> k, value |-> v] ELSE d[j]]
    ELSE Append(d, [key |-> k, value |-> v])

-----------------------------------------------------------------------------
(* The provider: what one HTTP request can come back with *)

Close(mills) == [numeric |-> TRUE, mills |-> mills]
NotANumber == [numeric |-> FALSE, mills |-> 0]

\* One daily record of the time series: with or without a "4. close" field.
Bar(c) == [open |-> c, close |-> c]
BarNoClose(c) == [open |-> c]

SeriesYtd ==
    (20251231 :> Bar(Close(90000))) @@ (20260102 :> Bar(Close(100004)))
        @@ (20260105 :> Bar(Close(110006)))
SeriesOld ==
    (20251230 :> Bar(Close(89000))) @@ (20251231 :> BarNoClose(Close(90000)))
SeriesNoClose ==
    (20260102 :> Bar(Close(100004))) @@ (20260105 :> BarNoClose(Close(110006)))
SeriesNotNumeric == (20260105 :> Bar(NotANumber))

GoodSeries == { SeriesYtd, SeriesOld }
MalformedSeries == { SeriesNoClose, SeriesNotNumeric }

\* kind: "urlerror" and "timeout" are raised by urlopen, "badjson" by
\* json.loads; "notice" is a JSON object without "Time Series (Daily)" (a
\* quota note, an information or error message); "series" carries the key.
Response(kind, series) == [kind |-> kind, series |-> series]

FailureKinds == { "urlerror", "timeout", "badjson", "notice" }

ProviderResponses ==
    { Response(k, <<>>) : k \in FailureKinds }
        \cup { Response("series", s) : s \in GoodSeries \cup MalformedSeries }

\* fetch_daily(symbol), given what the request comes back with.
fetch_daily(resp) ==
    IF resp.kind \in { "urlerror", "timeout", "badjson" }
    THEN None                      \* except Exception: return None
    ELSE IF resp.kind = "notice"
    THEN None                      \* "Time Series (Daily)" not in data
    ELSE Some(resp.series)

-----------------------------------------------------------------------------
(* data/prices.json *)

Snapshot(stocks) ==
    [updated |-> "now", start_date |-> START_DATE, stocks |-> stocks]

CachedStocks ==
    << [key |-> "HOOD",
        value |-> [p0 |-> 11000, p1 |-> 12001, ytd |-> 910, currency |-> "USD",
                   daily |-> << [key |-> 20260102, value |-> 12001] >>]],
       [key |-> "TTD",
        value |-> [p0 |-> 3819, currency |-> "USD", daily |-> <<>>,
                   error |-> "No data available"]],
       [key |-> "GMAB",
        value |-> [p0 |-> 3118, p1 |-> 3118, currency |-> "USD", daily |-> <<>>,
                   error |-> "No data available"]],
       [key |-> "XXI",
        value |-> [p0 |-> 885, p1 |-> 900, ytd |-> 169, currency |-> "USD",
                   daily |-> << [key |-> 20260105, value |-> 900] >>,
                   note |-> "kept by hand"]],
       [key |-> "OLD",
        value |-> [p0 |-> 1000, p1 |-> 1000, ytd |-> 0, currency |-> "USD",
                   daily |-> <<>>]] >>

PriorSnapshot ==
    [updated |-> "earlier", start_date |-> START_DATE, stocks |-> CachedStocks]
PriorSnapshotNoStocks == [updated |-> "earlier", start_date |-> START_DATE]

FileMissing == [state |-> "missing", data |-> <<>>]
FileCorrupt == [state |-> "corrupt", data |-> <<>>]
FileJson(data) == [state |-> "json", data |-> data]

PricesFiles ==
    { FileMissing, FileCorrupt, FileJson(PriorSnapshotNoStocks),
      FileJson(PriorSnapshot) }

load_existing(file) ==
    IF file.state = "json"
    THEN Some(file.data)
    ELSE None                      \* FileNotFoundError, JSONDecodeError

-----------------------------------------------------------------------------
(* main(): the body of the loop over STOCKS *)

\* "if i < len(STOCKS) - 1: time.sleep(13)" in scripts/fetch_prices.py,
\* "time.sleep(12)" after every call in fetch_prices.py.
SleepsAfterCall(v, idx) ==
    IF v = "scripts" THEN idx < Len(STOCKS) - 1 ELSE TRUE

\* "existing and ticker in existing.get("stocks", {})"
HasCached(ex, ticker) ==
    /\ ex.ok
    /\ DOMAIN ex.val # {}
    /\ "stocks" \in DOMAIN ex.val
    /\ DictHas(ex.val.stocks, ticker)

Placeholder(v, stock) ==
    IF v = "scripts"
    THEN [p0 |-> stock.p0, p1 |-> stock.p0, currency |-> stock.currency,
          daily |-> <<>>, error |-> "No data available"]
    ELSE [p0 |-> stock.p0, currency |-> stock.currency,
          daily |-> <<>>, error |-> "No data available"]

\* ResolveAbsent storing nothing when there is no cached entry.
ResolveAbsentSkips(v, stock, ex, stocks) ==
    IF HasCached(ex, stock.ticker)
    THEN DictSet(stocks, stock.ticker, DictGet(ex.val.stocks, stock.ticker))
    ELSE stocks

\* ResolveAbsent resetting the baseline of the cached entry to the configured one.
ResolveAbsentRebased(v, stock, ex, stocks) ==
    IF HasCached(ex, stock.ticker)
    THEN DictSet(stocks, stock.ticker,
                 [DictGet(ex.val.stocks, stock.ticker) EXCEPT !.p0 = stock.p0])
    ELSE DictSet(stocks, stock.ticker, Placeholder(v, stock))

\* The branch "if ts is None": result["stocks"] after it.
ResolveAbsent(v, stock, ex, stocks) ==
    IF HasCached(ex, stock.ticker)
    THEN DictSet(stocks, stock.ticker, DictGet(ex.val.stocks, stock.ticker))
    ELSE DictSet(stocks, stock.ticker, Placeholder(v, stock))

RECURSIVE SortedSeq(_)
\* sorted(ts.items()), as the sequence of its keys
SortedSeq(S) ==
    IF S = {} THEN <<>>
    ELSE LET m == CHOOSE x \in S : \A y \in S : x <= y
         IN <<m>> \o SortedSeq(S \ {m})

\* Retained with the start date itself left out.
RetainedAfterStart(date_str) == date_str > START_DATE

Retained(date_str) == date_str >= START_DATE

\* float(values["4. close"]) raises KeyError without the field and
\* ValueError when the field is no number.
FloatCloseRaises(values) ==
    \/ "close" \notin DOMAIN values
    \/ ~values.close.numeric

RECURSIVE DailyLoop(_, _, _)
\* "for date_str, values in sorted(ts.items())": the daily dict built, or the
\* exception that leaves the loop.
DailyLoop(items, series, daily) ==
    IF items = <<>> THEN [raised |-> FALSE, daily |-> daily]
    ELSE LET date_str == Head(items)
             values == series[date_str]
         IN IF Retained(date_str)
            THEN IF FloatCloseRaises(values)
                 THEN [raised |-> TRUE, daily |-> daily]
                 ELSE DailyLoop(Tail(items), series,
                                DictSet(daily, date_str, Round2(values.close.mills)))
            ELSE DailyLoop(Tail(items), series, daily)

BuildDaily(series) == DailyLoop(SortedSeq(DOMAIN series), series, <<>>)

\* max(daily.keys())
LatestDate(daily) == Max(DictKeys(daily))

\* The record main() stores for a fetched series whose daily dict is `daily`.
FreshRecord(stock, daily) ==
    LET latest_price == IF daily # <<>> THEN DictGet(daily, LatestDate(daily))
                        ELSE stock.p0
        ytd == IF daily # <<>> THEN YtdPercent(latest_price, stock.p0) ELSE 0
    IN [p0 |-> stock.p0, p1 |-> latest_price, ytd |-> ytd,
        currency |-> stock.currency, daily |-> daily]

\* One pass of the loop body after the rate-limit wait, when nothing raises:
\* result["stocks"] after it.
ResolveStep(v, stock, got, ex, stocks) ==
    IF ~got.ok
    THEN ResolveAbsent(v, stock, ex, stocks)
    ELSE DictSet(stocks, stock.ticker,
                 FreshRecord(stock, BuildDaily(got.val).daily))

-----------------------------------------------------------------------------
(* index.html as text *)

\* A document is a sequence of tokens.  "open" is the text "const PRICES = {",
\* "nl" a newline, "rbrace" the character "}", "semi" the character ";", "text"
\* a run of other characters.  The remaining kinds are the lines
\* update_index_html writes, none of which holds a newline or starts with "}":
\* "tickerline" is '  "T": {', "fieldsline" the p0/p1/currency line,
\* "dailyline" the line with json.dumps of the daily dict (the token carries
\* the dict the text is the compact JSON of), "entryend" is "  },".
Tok(kind) ==
    [kind |-> kind, ticker |-> "", p0 |-> 0, p1 |-> 0, currency |-> "",
     daily |-> <<>>]

OPEN == Tok("open")
NL == Tok("nl")
RBRACE == Tok("rbrace")
SEMI == Tok("semi")
TEXT == Tok("text")

TickerLine(ticker) == [Tok("tickerline") EXCEPT !.ticker = ticker]

\* f'    "p0": {sd["p0"]}, "p1": {sd.get("p1", sd["p0"])}, "currency": "{sd["currency"]}",'
FieldsLine(sd) ==
    [Tok("fieldsline") EXCEPT
        !.p0 = sd.p0,
        !.p1 = IF "p1" \in DOMAIN sd THEN sd.p1 ELSE sd.p0,
        !.currency = sd.currency]

\* f'    "daily": {daily_str}' with daily_str = json.dumps(sd.get("daily", {}))
DailyLine(sd) ==
    [Tok("dailyline") EXCEPT
        !.daily = IF "daily" \in DOMAIN sd THEN sd.daily ELSE <<>>]

RECURSIVE EntryLines(_)
\* The lines appended for the entries of stocks_data.items(), each after the
\* newline "\n".join puts before it.
EntryLines(stocks_data) ==
    IF stocks_data = <<>> THEN <<>>
    ELSE LET e == Head(stocks_data)
         IN << NL, TickerLine(e.key), NL, FieldsLine(e.value),
               NL, DailyLine(e.value), NL, Tok("entryend") >>
            \o EntryLines(Tail(stocks_data))

\* NewPrices with the last line "}" instead of "};".
NewPricesUnterminated(stocks_data) ==
    <<OPEN>> \o EntryLines(stocks_data) \o << NL, RBRACE >>

\* new_prices: "const PRICES = {", the entries, and the last line "};".
NewPrices(stocks_data) ==
    <<OPEN>> \o EntryLines(stocks_data) \o << NL, RBRACE, SEMI >>

\* The closing text "\n};" starts at position e of doc.
ClosesAt(doc, e) ==
    /\ e + 2 <= Len(doc)
    /\ doc[e] = NL
    /\ doc[e + 1] = RBRACE
    /\ doc[e + 2] = SEMI

\* The matches of r"const PRICES = \{[\s\S]*?\n\};" in doc, each as the
\* positions of its first and last token.
PatternMatches(doc) ==
    { m \in (1..Len(doc)) \X (1..Len(doc)) :
        /\ doc[m[1]] = OPEN
        /\ m[2] - 2 > m[1]
        /\ ClosesAt(doc, m[2] - 2) }

\* ReSearch with a greedy [\s\S]*: the longest match at the leftmost start.
ReSearchGreedy(doc) ==
    IF PatternMatches(doc) = {}
    THEN [found |-> FALSE, start |-> 0, end |-> 0]
    ELSE LET s == CHOOSE x \in { m[1] : m \in PatternMatches(doc) } :
                      \A y \in { m[1] : m \in PatternMatches(doc) } : x <= y
             e == CHOOSE x \in { m[2] : m \in { n \in PatternMatches(doc) : n[1] = s } } :
                      \A y \in { m[2] : m \in { n \in PatternMatches(doc) : n[1] = s } } : x >= y
         IN [found |-> TRUE, start |-> s, end |-> e]

\* re.search(pattern, html): the leftmost match, and at that start the
\* shortest one ([\s\S]*? is lazy).
ReSearch(doc) ==
    IF PatternMatches(doc) = {}
    THEN [found |-> FALSE, start |-> 0, end |-> 0]
    ELSE LET s == CHOOSE x \in { m[1] : m \in PatternMatches(doc) } :
                      \A y \in { m[1] : m \in PatternMatches(doc) } : x <= y
             e == CHOOSE x \in { m[2] : m \in { n \in PatternMatches(doc) : n[1] = s } } :
                      \A y \in { m[2] : m \in { n \in PatternMatches(doc) : n[1] = s } } : x <= y
         IN [found |-> TRUE, start |-> s, end |-> e]

\* re.sub(pattern, repl, html, count=1).  No token of repl holds a backslash,
\* so the replacement template is taken literally.
ReSub(repl, doc) ==
    LET m == ReSearch(doc)
    IN IF m.found
       THEN SubSeq(doc, 1, m.start - 1) \o repl \o SubSeq(doc, m.end + 1, Len(doc))
       ELSE doc

\* UpdatedDocument appending the block to a document that has none.
UpdatedDocumentAppends(doc, stocks_data) ==
    IF ReSearch(doc).found
    THEN [write |-> TRUE, doc |-> ReSub(NewPrices(stocks_data), doc), warning |-> ""]
    ELSE [write |-> TRUE, doc |-> doc \o <<NL>> \o NewPrices(stocks_data),
          warning |-> "Could not find PRICES block in index.html"]

\* update_index_html after index.html was read: whether the file is written,
\* the text written, and the warning printed.  Every record of stocks_data
\* has the fields "p0" and "currency" (main() sets them, and so does every
\* entry of PriorSnapshot).
UpdatedDocument(doc, stocks_data) ==
    IF ReSearch(doc).found
    THEN [write |-> TRUE, doc |-> ReSub(NewPrices(stocks_data), doc), warning |-> ""]
    ELSE [write |-> FALSE, doc |-> doc,
          warning |-> "Could not find PRICES block in index.html"]

HtmlMissing == [exists |-> FALSE, doc |-> <<>>]
HtmlFile(doc) == [exists |-> TRUE, doc |-> doc]

-----------------------------------------------------------------------------
(* The run *)

N == Len(STOCKS)

OldBlock == << OPEN, NL, TEXT, NL, RBRACE, SEMI >>

HtmlSamples ==
    { HtmlMissing,
      HtmlFile(<< TEXT, NL, RBRACE, SEMI, NL, TEXT >>),
      HtmlFile(<< TEXT, NL >> \o OldBlock \o << NL, TEXT >> \o OldBlock \o << TEXT >>) }

Init ==
    /\ variant \in { "root", "scripts" }
    /\ apiKey \in { "", "key" }
    /\ pc = "import"
    /\ i = 0
    /\ fetched = <<>>
    /\ events = <<>>
    /\ existing = None
    /\ result = <<>>
    /\ pricesFile \in PricesFiles
    /\ jsonWrites = 0
    /\ html \in (IF variant = "scripts" THEN HtmlSamples ELSE { HtmlMissing })
    /\ htmlWrites = 0
    /\ warning = ""

\* Module level: "if not API_KEY: ... sys.exit(1)".
ImportModule ==
    /\ pc = "import"
    /\ pc' = IF apiKey = "" THEN "exit1" ELSE "main"
    /\ UNCHANGED <<variant, apiKey, i, fetched, events, existing, result,
                   pricesFile, jsonWrites, html, htmlWrites, warning>>

\* main() up to the loop: load_existing() and the empty result.
MainBegin ==
    /\ pc = "main"
    /\ existing' = load_existing(pricesFile)
    /\ result' = <<>>
    /\ i' = 0
    /\ pc' = "loop"
    /\ UNCHANGED <<variant, apiKey, fetched, events, pricesFile, jsonWrites,
                   html, htmlWrites, warning>>

\* One pass of "for i, stock in enumerate(STOCKS)": fetch_daily, the
\* rate-limit wait, and the record of the instrument stored; or the exception
\* of float(values["4. close"]) leaves main() (traceback, exit status 1).
LoopBody ==
    /\ pc = "loop"
    /\ i < N
    /\ \E resp \in ProviderResponses :
        LET got == fetch_daily(resp)
        IN /\ fetched' = Append(fetched, got)
           /\ events' = events \o <<"fetch">>
                            \o (IF SleepsAfterCall(variant, i) THEN <<"sleep">> ELSE <<>>)
           /\ IF got.ok /\ BuildDaily(got.val).raised
              THEN /\ pc' = "crashed"
                   /\ UNCHANGED <<i, result>>
              ELSE /\ result' = ResolveStep(variant, STOCKS[i + 1], got, existing, result)
                   /\ i' = i + 1
                   /\ pc' = "loop"
    /\ UNCHANGED <<variant, apiKey, existing, pricesFile, jsonWrites, html,
                   htmlWrites, warning>>

\* WriteJson inside the loop: the snapshot is written after every pass.
WriteJsonEveryPass ==
    /\ pc = "loop"
    /\ i <= N
    /\ jsonWrites <= i
    /\ pricesFile' = FileJson(Snapshot(result))
    /\ jsonWrites' = jsonWrites + 1
    /\ pc' = IF i < N THEN "loop"
             ELSE IF variant = "scripts" THEN "publish" ELSE "done"
    /\ UNCHANGED <<variant, apiKey, i, fetched, events, existing, result, html,
                   htmlWrites, warning>>

\* "with open(out_path, "w") as f: json.dump(result, f, indent=2)"; the
\* scripts variant goes on to update_index_html.
WriteJson ==
    /\ pc = "loop"
    /\ i = N
    /\ pricesFile' = FileJson(Snapshot(result))
    /\ jsonWrites' = jsonWrites + 1
    /\ pc' = IF variant = "scripts" THEN "publish" ELSE "done"
    /\ UNCHANGED <<variant, apiKey, i, fetched, events, existing, result, html,
                   htmlWrites, warning>>

\* update_index_html(result["stocks"]), then "Done!".
UpdateIndexHtml ==
    /\ pc = "publish"
    /\ IF ~html.exists
       THEN /\ warning' = "index.html not found, skipping embedded update"
            /\ UNCHANGED <<html, htmlWrites>>
       ELSE LET u == UpdatedDocument(html.doc, result)
            IN /\ warning' = u.warning
               /\ IF u.write
                  THEN html' = HtmlFile(u.doc) /\ htmlWrites' = htmlWrites + 1
                  ELSE UNCHANGED <<html, htmlWrites>>
    /\ pc' = "done"
    /\ UNCHANGED <<variant, apiKey, i, fetched, events, existing, result,
                   pricesFile, jsonWrites>>

Next ==
    \/ ImportModule
    \/ MainBegin
    \/ LoopBody
    \/ WriteJson
    \/ UpdateIndexHtml

Spec == Init /\ [][Next]_vars

-----------------------------------------------------------------------------
(* update_index_html on its own: the state after the JSON write of a run of *)
(* the scripts variant, over a wider choice of documents                    *)

MaxDocParts == 3

Fragments ==
    { << TEXT >>, << OPEN >>, << NL >>, << RBRACE, SEMI >>,
      << NL, RBRACE, SEMI >>, OldBlock }

RECURSIVE Documents(_)
\* The documents made of at most n fragments.
Documents(n) ==
    IF n = 0 THEN { <<>> }
    ELSE Documents(n - 1)
            \cup { d \o f : d \in Documents(n - 1), f \in Fragments }

\* What fetch_daily returned over one run, instrument by instrument.
FetchedSamples ==
    { [k \in 1..N |-> None],
      [k \in 1..N |-> Some(SeriesYtd)],
      [k \in 1..N |-> IF k % 3 = 1 THEN None
                      ELSE IF k % 3 = 2 THEN Some(SeriesYtd) ELSE Some(SeriesOld)] }

RECURSIVE RunLoop(_, _, _, _)
\* result["stocks"] after the first k passes of the loop.
RunLoop(v, ex, outcomes, k) ==
    IF k = 0 THEN <<>>
    ELSE ResolveStep(v, STOCKS[k], outcomes[k], ex, RunLoop(v, ex, outcomes, k - 1))

RECURSIVE RunEvents(_, _)
\* The calls of fetch_daily and time.sleep over the first k passes.
RunEvents(v, k) ==
    IF k = 0 THEN <<>>
    ELSE RunEvents(v, k - 1) \o <<"fetch">>
            \o (IF SleepsAfterCall(v, k - 1) THEN <<"sleep">> ELSE <<>>)

InitPublisher ==
    /\ variant = "scripts"
    /\ apiKey = "key"
    /\ pc = "publish"
    /\ i = N
    /\ fetched \in FetchedSamples
    /\ events = RunEvents(variant, N)
    /\ existing \in { load_existing(f) : f \in { FileMissing, FileJson(PriorSnapshot) } }
    /\ result = RunLoop(variant, existing, fetched, N)
    /\ pricesFile = FileJson(Snapshot(result))
    /\ jsonWrites = 1
    /\ html \in { HtmlMissing } \cup { HtmlFile(d) : d \in Documents(MaxDocParts) }
    /\ htmlWrites = 0
    /\ warning = ""

NextPublisher == UpdateIndexHtml

SpecPublisher == InitPublisher /\ [][NextPublisher]_vars

-----------------------------------------------------------------------------
(* Properties *)

FetchCount(ev) == Cardinality({ k \in DOMAIN ev : ev[k] = "fetch" })
SleepCount(ev) == Cardinality({ k \in DOMAIN ev : ev[k] = "sleep" })

\* main() is at its write step, or past it.
AtWriteStep == pc = "loop" /\ i = N
WriteStepReached == AtWriteStep \/ pc \in { "publish", "done" }

\* The instrument of pass k of the loop got no series and the loaded snapshot
\* has / has not an entry for its ticker.
AbsentCached(k) == ~fetched[k].ok /\ HasCached(existing, STOCKS[k].ticker)
AbsentNoCache(k) == ~fetched[k].ok /\ ~HasCached(existing, STOCKS[k].ticker)

\* doc holds an opening marker with a closing marker somewhere after it.
HasBlock(doc) ==
    \E s \in 1..Len(doc) : \E e \in (s + 1)..Len(doc) :
        doc[s] = OPEN /\ ClosesAt(doc, e)

FirstOpening(doc) ==
    CHOOSE s \in 1..Len(doc) :
        doc[s] = OPEN /\ \A t \in 1..(s - 1) : doc[t] # OPEN

FirstClosingAfter(doc, s) ==
    CHOOSE e \in (s + 1)..Len(doc) :
        ClosesAt(doc, e) /\ \A t \in (s + 1)..(e - 1) : ~ClosesAt(doc, t)

\* C1: when main() of either variant reaches its write step, the keys of
\* result["stocks"] are exactly the tickers of STOCKS, one record each, and
\* so are the keys of the snapshot it then writes.
C1_OneRecordPerTicker ==
    WriteStepReached =>
        /\ DictKeys(result) = Tickers
        /\ Len(result) = N
        /\ jsonWrites = 1 => DictKeys(pricesFile.data.stocks) = Tickers

C1_Witness ==
    /\ pc = "done"
    /\ \E a, b, c \in 1..N : AbsentCached(a) /\ AbsentNoCache(b) /\ fetched[c].ok

\* C2: at the write step of either variant the rate-limit delay has been
\* applied exactly N - 1 times, each time between two fetch_daily calls:
\* never before the first call, never after the last.
C2_DelaysOnlyBetweenCalls ==
    WriteStepReached =>
        /\ SleepCount(events) = N - 1
        /\ events[1] = "fetch"
        /\ events[Len(events)] = "fetch"
        /\ \A k \in DOMAIN events :
            events[k] = "sleep" =>
                /\ 1 < k /\ k < Len(events)
                /\ events[k - 1] = "fetch"
                /\ events[k + 1] = "fetch"

\* C3: a per-instrument failure never aborts the run: once fetch_daily has been
\* called for the instrument of pass k, whatever came back, the run is not
\* aborted and that instrument gets its record in result["stocks"].
C3_FailureNeverAborts ==
    \A k \in 1..N :
        FetchCount(events) >= k =>
            /\ pc # "crashed"
            /\ DictHas(result, STOCKS[k].ticker)

\* C4: for an instrument whose fetch returned None and for which the loaded
\* snapshot has no entry, the record has p1 equal to the baseline p0, an
\* empty daily mapping and a non-empty error string, in both variants.
C4_PlaceholderHasLatest ==
    \A k \in 1..i :
        AbsentNoCache(k) =>
            LET rec == DictGet(result, STOCKS[k].ticker)
            IN /\ "p1" \in DOMAIN rec
               /\ rec.p1 = STOCKS[k].p0
               /\ rec.daily = <<>>
               /\ "error" \in DOMAIN rec
               /\ rec.error # ""

\* C5: for an instrument whose fetch returned None and for which the loaded
\* snapshot has an entry, the record in result["stocks"], and in the snapshot
\* written, equals that entry, whatever its fields are.
C5_CachedCopiedVerbatim ==
    \A k \in 1..i :
        AbsentCached(k) =>
            LET cached == DictGet(existing.val.stocks, STOCKS[k].ticker)
            IN /\ DictGet(result, STOCKS[k].ticker) = cached
               /\ jsonWrites = 1 =>
                    DictGet(pricesFile.data.stocks, STOCKS[k].ticker) = cached

C5_Witness ==
    /\ pc = "done"
    /\ jsonWrites = 1
    /\ \A k \in 1..4 : AbsentCached(k)

C7_OnlyTheSpanReplaced ==
    [][ (pc = "publish" /\ html.exists /\ HasBlock(html.doc)) =>
            LET s == FirstOpening(html.doc)
                e == FirstClosingAfter(html.doc, s)
            IN /\ htmlWrites' = htmlWrites + 1
               /\ html'.exists
               /\ html'.doc = SubSeq(html.doc, 1, s - 1) \o NewPrices(result)
                                 \o SubSeq(html.doc, e + 3, Len(html.doc)) ]_vars

\* A written document with text before the block and a second pair of
\* markers after it.
C7_Witness ==
    /\ pc = "done"
    /\ htmlWrites = 1
    /\ html.doc[1] # OPEN
    /\ Cardinality({ m[1] : m \in PatternMatches(html.doc) }) >= 2

\* C8: when the document holds no block, update_index_html leaves index.html
\* alone (no write, nothing appended), prints the warning, and the run
\* completes with the JSON snapshot written.
C8_NoBlockNoWrite ==
    [][ (pc = "publish" /\ html.exists /\ ~HasBlock(html.doc)) =>
            /\ html' = html
            /\ htmlWrites' = htmlWrites
            /\ warning' = "Could not find PRICES block in index.html"
            /\ pc' = "done"
            /\ jsonWrites' = 1
            /\ pricesFile' = FileJson(Snapshot(result)) ]_vars

C8_Witness ==
    /\ pc = "done"
    /\ html.exists
    /\ ~HasBlock(html.doc)
    /\ warning = "Could not find PRICES block in index.html"
    /\ htmlWrites = 0
    /\ jsonWrites = 1

\* C9: a file is written only once every instrument has been fetched and
\* resolved, and no fetch_daily call follows a write; a run that ends earlier
\* has written nothing.
C9_WritesAfterAllFetches ==
    [][ /\ (pricesFile' # pricesFile \/ jsonWrites' # jsonWrites
                \/ html' # html \/ htmlWrites' # htmlWrites) =>
            /\ i = N
            /\ FetchCount(events) = N
            /\ DictKeys(result) = Tickers
            /\ events' = events
        /\ events' # events => (jsonWrites = 0 /\ htmlWrites = 0)
        /\ pc' \in { "crashed", "exit1" } =>
            (pricesFile' = pricesFile /\ jsonWrites' = 0) ]_vars

C9_Witness ==
    /\ pc = "done"
    /\ jsonWrites = 1
    /\ htmlWrites = 1
    /\ pricesFile # FileJson(PriorSnapshot)

\* C10: for an instrument whose fetch returned a series, the daily mapping of
\* its record has exactly the fetched dates >= START_DATE; p1 is the price at
\* the latest of them; with none of them p1 is the baseline p0, ytd is 0 and
\* the record has no error field.
C10_FreshRecord ==
    \A k \in 1..i :
        fetched[k].ok =>
            LET rec == DictGet(result, STOCKS[k].ticker)
                kept == { d \in DOMAIN fetched[k].val : d >= START_DATE }
            IN /\ DictKeys(rec.daily) = kept
               /\ kept # {} =>
                    /\ rec.p1 = DictGet(rec.daily, Max(kept))
                    /\ rec.p1 = Round2(fetched[k].val[Max(kept)].close.mills)
               /\ kept = {} =>
                    /\ rec.p1 = STOCKS[k].p0
                    /\ rec.ytd = 0
                    /\ "error" \notin DOMAIN rec

C10_Witness ==
    /\ pc = "done"
    /\ \E a, b \in 1..N :
        /\ fetched[a] = Some(SeriesYtd)
        /\ fetched[b] = Some(SeriesOld)
        /\ HasCached(existing, STOCKS[a].ticker)

=============================================================================
